---- MODULE Spec2Model ----
(***************************************************************************)
(* Model of backend/server.py: the content-optimization job pipeline.      *)
(*                                                                         *)
(* State: the content_jobs collection (one record per job id), and for     *)
(* each job the position and the local variables of its background task    *)
(* process_content_job.  Every await of the task (an AI adapter call, a    *)
(* persistence write) is one atomic step whose outcome - it returns or it  *)
(* raises - is chosen nondeterministically.  A persistence write that      *)
(* raises is taken not to have been applied.  The reads get_job_status and *)
(* get_all_jobs write nothing: they are stuttering steps of Spec.          *)
(*                                                                         *)
(* SpecApi adds the GET and DELETE requests with their replies, SpecStats  *)
(* the four counting queries of GET /stats, and SpecText applies the text  *)
(* functions (readability, SEO score, keywords, analysis) to bounded sets  *)
(* of texts.                                                               *)
(***************************************************************************)
EXTENDS Integers, Sequences, FiniteSets

(* ---------------------------------------------------------------- bounds *)
\* Number of job identifiers (uuid4 values, never reused) that can be submitted.
MaxJobs == 2
\* Last instant datetime.now() can return; instants are 0..MaxTime.
MaxTime == 1
\* Number of job identifiers submitted in the specification with fairness.
MaxLiveJobs == 1
\* Number of job identifiers in the specifications of the GET, DELETE and
\* statistics requests.
MaxApiJobs == 1

Jobs == 1..MaxJobs
Times == 0..MaxTime
LiveJobs == 1..MaxLiveJobs
ApiJobs == 1..MaxApiJobs
\* Longest text of the exhaustively enumerated short texts.
MaxLen == 4
\* How often the keyword texts repeat their first token before the rest.
MaxRepeat == 4
\* How many freely chosen tokens the keyword texts end with.
MaxExtra == 2
\* Most numbered lines in a response of the analyze prompt.
MaxItems == 4

(* ------------------------------------------------------- Optional values *)
\* Optional[T]: None is the empty sequence, a present value v is <<v>>.
None == <<>>
Some(v) == <<v>>

\* A collection slot that holds no document.
NoRecord == [absent |-> TRUE]

(* ------------------------------------------------------- adapter results *)
\* What chat.send_message can do: return a response or raise.
AdapterOutcomes == {"returns", "raises"}
\* What a persistence call (insert_one, update_one) can do.
StoreOutcomes == {"ok", "raises"}

\* Responses of the analyze prompt, by what the two patterns find in them:
\* the text after "TONE:" (None when the pattern has no match) and the
\* numbered-list lines, in order.
AnalyzeResponses ==
    { [tone |-> Some("Professional and Informative"),
       items |-> <<"s1", "s2", "s3">>] }

\* tone = tone_match.group(1).strip() if tone_match else "Neutral"
ParseTone(response) ==
    IF response.tone # None THEN response.tone[1] ELSE "Neutral"

\* Mutant: the numbered lines found are all kept, without the cut at three.
ParseSuggestions_untruncated(response) ==
    IF response.items # <<>> THEN response.items
    ELSE <<"Improve clarity", "Enhance engagement", "Optimize structure">>

\* suggestions = suggestions[:3] if suggestions else [defaults]
ParseSuggestions(response) ==
    IF response.items # <<>>
    THEN SubSeq(response.items, 1,
                IF Len(response.items) < 3 THEN Len(response.items) ELSE 3)
    ELSE <<"Improve clarity", "Enhance engagement", "Optimize structure">>

\* The except branch of analyze_content_with_ai.
AnalysisFallback ==
    [tone |-> "Unable to analyze",
     suggestions |-> <<"Improve readability", "Enhance SEO",
                       "Strengthen engagement">>]

\* analyze_content_with_ai: the adapter failure is caught locally, the
\* function always returns an AnalysisResult.
analyze_content_with_ai(outcome, response) ==
    IF outcome = "returns"
    THEN [tone |-> ParseTone(response),
          suggestions |-> ParseSuggestions(response)]
    ELSE AnalysisFallback

\* The OptimizationResult built from a returned response.
OptimizationOk ==
    [optimized_content |-> "optimized",
     improvements |-> <<"Enhanced readability and flow",
                        "Improved SEO keyword integration",
                        "Strengthened engagement and clarity",
                        "Optimized structure and formatting">>]

\* str(e) of the HTTPException raised by optimize_content_with_ai, which
\* formats as "<status_code>: <detail>".
OptimizationError == "500: Optimization failed"

\* The VariantResult built from a returned response.
VariantsOk ==
    [variant_a |-> "variant a", variant_b |-> "variant b",
     differences |-> <<"Variant A: Emotional and narrative-driven approach",
                       "Variant B: Data-focused and authoritative tone",
                       "Both optimized for different audience segments">>]

\* str(e) of the HTTPException raised by generate_variants_with_ai.
VariantsError == "500: Variant generation failed"

\* str(e) of the exception a failing update_one raises.
StoreError == "store write failed"

(* ------------------------------------------------------------ the record *)
\* ContentJob as submit_content dumps it: the defaults of the model class.
ContentJob ==
    [status |-> "processing", analysis |-> None, optimization |-> None,
     variants |-> None, completed_at |-> None, error |-> None]

\* The effect of {"$set": fields} on one document.
SetFields(doc, fields) ==
    [k \in DOMAIN doc |-> IF k \in DOMAIN fields THEN fields[k] ELSE doc[k]]

\* An update whose filter does not name the job: it sets the fields in every
\* document of the collection.
update_one_unfiltered(coll, j, fields) ==
    [k \in DOMAIN coll |->
        IF coll[k] = NoRecord THEN NoRecord ELSE SetFields(coll[k], fields)]

\* An update_one that inserts the document when the filter matches none.
update_one_upsert(coll, j, fields) ==
    [coll EXCEPT ![j] = SetFields(IF coll[j] = NoRecord THEN ContentJob
                                  ELSE coll[j], fields)]

\* db.content_jobs.update_one({"id": j}, {"$set": fields}): no upsert, a
\* filter that matches no document changes nothing.
update_one(coll, j, fields) ==
    IF coll[j] = NoRecord THEN coll
    ELSE [coll EXCEPT ![j] = SetFields(coll[j], fields)]

(* ----------------------------------------------------------------- state *)
VARIABLES
    store,         \* db.content_jobs: job id -> document or NoRecord
    pc,            \* position of each job's submission and background task
    analysis,      \* local variable analysis of process_content_job
    optimization,  \* local variable optimization of process_content_job
    variants,      \* local variable variants of process_content_job
    exc,           \* the exception e bound by "except Exception as e"
    calls,         \* the send_message calls made for each job, with outcome
    response,      \* what submit_content answered for each job id
    reply,         \* the last answer of get_job_status or delete_job
    stats,         \* the get_stats request: its position and its locals
    arg,           \* the argument a text function is applied to
    ret            \* what the text function returned

\* The variables of the job pipeline, and those of the other requests.
jobVars == <<store, pc, analysis, optimization, variants, exc, calls, response>>
requestVars == <<reply, stats, arg, ret>>
vars == <<jobVars, requestVars>>

\* No get_stats request is in progress: none of its locals is bound.
StatsIdle ==
    [pc |-> "idle", total_jobs |-> None, completed_jobs |-> None,
     processing_jobs |-> None, failed_jobs |-> None, scored |-> None]

\* No job submitted.
InitJobs ==
    /\ store = [j \in Jobs |-> NoRecord]
    /\ pc = [j \in Jobs |-> "idle"]
    /\ analysis = [j \in Jobs |-> None]
    /\ optimization = [j \in Jobs |-> None]
    /\ variants = [j \in Jobs |-> None]
    /\ exc = [j \in Jobs |-> None]
    /\ calls = [j \in Jobs |-> <<>>]
    /\ response = [j \in Jobs |-> None]

\* No job submitted, no request made, no text function applied.
Init ==
    /\ InitJobs
    /\ reply = None
    /\ stats = StatsIdle
    /\ arg = None
    /\ ret = None

(* --------------------------------------------------------------- actions *)
\* One entry of the adapter's call log.
Call(stage, outcome) == [stage |-> stage, outcome |-> outcome]

\* Mutant: the submission awaits the analyze stage before it answers.
submit_content_awaiting(j) ==
    /\ pc[j] = "idle"
    /\ \E outcome \in AdapterOutcomes, r \in AnalyzeResponses :
         /\ analysis' = [analysis EXCEPT
                           ![j] = Some(analyze_content_with_ai(outcome, r))]
         /\ calls' = [calls EXCEPT ![j] = Append(@, Call("analyze", outcome))]
    /\ store' = [store EXCEPT ![j] = ContentJob]
    /\ pc' = [pc EXCEPT ![j] = "write_analysis"]
    /\ response' = [response EXCEPT
                      ![j] = Some([job_id |-> j, status |-> "processing"])]
    /\ UNCHANGED <<optimization, variants, exc>>

\* POST /content/submit.  insert_one raising propagates to the caller and
\* no task is added; otherwise the task is queued and the response is sent.
submit_content(j) ==
    /\ pc[j] = "idle"
    /\ \E outcome \in StoreOutcomes :
         IF outcome = "ok"
         THEN /\ store' = [store EXCEPT ![j] = ContentJob]
              /\ pc' = [pc EXCEPT ![j] = "analyze"]
              /\ response' = [response EXCEPT
                    ![j] = Some([job_id |-> j, status |-> "processing"])]
         ELSE /\ store' = store
              /\ pc' = [pc EXCEPT ![j] = "rejected"]
              /\ response' = [response EXCEPT
                    ![j] = Some([job_id |-> 0, status |-> "error"])]
    /\ UNCHANGED <<analysis, optimization, variants, exc, calls>>

\* Mutant: the analyze stage re-raises the adapter failure the way the
\* other two stages do.
step_analyze_raising(j) ==
    /\ pc[j] = "analyze"
    /\ \E outcome \in AdapterOutcomes, r \in AnalyzeResponses :
         /\ calls' = [calls EXCEPT ![j] = Append(@, Call("analyze", outcome))]
         /\ IF outcome = "returns"
            THEN /\ analysis' = [analysis EXCEPT
                        ![j] = Some(analyze_content_with_ai(outcome, r))]
                 /\ pc' = [pc EXCEPT ![j] = "write_analysis"]
                 /\ exc' = exc
            ELSE /\ analysis' = analysis
                 /\ pc' = [pc EXCEPT ![j] = "except"]
                 /\ exc' = [exc EXCEPT ![j] = Some("500: Analysis failed")]
    /\ UNCHANGED <<store, optimization, variants, response>>

\* Step 1: analysis = await analyze_content_with_ai(...)
step_analyze(j) ==
    /\ pc[j] = "analyze"
    /\ \E outcome \in AdapterOutcomes, r \in AnalyzeResponses :
         /\ analysis' = [analysis EXCEPT
                           ![j] = Some(analyze_content_with_ai(outcome, r))]
         /\ calls' = [calls EXCEPT ![j] = Append(@, Call("analyze", outcome))]
    /\ pc' = [pc EXCEPT ![j] = "write_analysis"]
    /\ UNCHANGED <<store, optimization, variants, exc, response>>

\* Mutant: a failure of the analysis write is swallowed and the pipeline
\* goes on to the optimize stage.
step_write_analysis_swallowed(j) ==
    /\ pc[j] = "write_analysis"
    /\ \E outcome \in StoreOutcomes :
         store' = IF outcome = "ok"
                  THEN update_one(store, j, [analysis |-> analysis[j]])
                  ELSE store
    /\ pc' = [pc EXCEPT ![j] = "optimize"]
    /\ UNCHANGED <<analysis, optimization, variants, exc, calls, response>>

\* await update_one({"id": job_id}, {"$set": {"analysis": ...}})
step_write_analysis(j) ==
    /\ pc[j] = "write_analysis"
    /\ \E outcome \in StoreOutcomes :
         IF outcome = "ok"
         THEN /\ store' = update_one(store, j, [analysis |-> analysis[j]])
              /\ pc' = [pc EXCEPT ![j] = "optimize"]
              /\ exc' = exc
         ELSE /\ store' = store
              /\ pc' = [pc EXCEPT ![j] = "except"]
              /\ exc' = [exc EXCEPT ![j] = Some(StoreError)]
    /\ UNCHANGED <<analysis, optimization, variants, calls, response>>

\* Mutant: the optimize stage absorbs the adapter failure with a fallback
\* result the way the analyze stage does.
step_optimize_absorbing(j) ==
    /\ pc[j] = "optimize"
    /\ \E outcome \in AdapterOutcomes :
         calls' = [calls EXCEPT ![j] = Append(@, Call("optimize", outcome))]
    /\ optimization' = [optimization EXCEPT ![j] = Some(OptimizationOk)]
    /\ pc' = [pc EXCEPT ![j] = "write_optimization"]
    /\ UNCHANGED <<store, analysis, variants, exc, response>>

\* Step 2: optimization = await optimize_content_with_ai(...); an adapter
\* failure is re-raised as HTTPException and reaches the except clause.
step_optimize(j) ==
    /\ pc[j] = "optimize"
    /\ \E outcome \in AdapterOutcomes :
         /\ calls' = [calls EXCEPT ![j] = Append(@, Call("optimize", outcome))]
         /\ IF outcome = "returns"
            THEN /\ optimization' = [optimization EXCEPT
                                       ![j] = Some(OptimizationOk)]
                 /\ pc' = [pc EXCEPT ![j] = "write_optimization"]
                 /\ exc' = exc
            ELSE /\ optimization' = optimization
                 /\ pc' = [pc EXCEPT ![j] = "except"]
                 /\ exc' = [exc EXCEPT ![j] = Some(OptimizationError)]
    /\ UNCHANGED <<store, analysis, variants, response>>

\* Mutant: the optimization write is started but not awaited; the task goes
\* on to the vary stage before the write has been applied.
step_write_optimization_unawaited(j) ==
    /\ pc[j] = "write_optimization"
    /\ pc' = [pc EXCEPT ![j] = "vary"]
    /\ UNCHANGED <<store, analysis, optimization, variants, exc, calls,
                   response>>

\* Mutant: the task returns after the optimization write.
step_write_optimization_returning(j) ==
    /\ pc[j] = "write_optimization"
    /\ \E outcome \in StoreOutcomes :
         IF outcome = "ok"
         THEN /\ store' = update_one(store, j,
                                     [optimization |-> optimization[j]])
              /\ pc' = [pc EXCEPT ![j] = "done"]
              /\ exc' = exc
         ELSE /\ store' = store
              /\ pc' = [pc EXCEPT ![j] = "except"]
              /\ exc' = [exc EXCEPT ![j] = Some(StoreError)]
    /\ UNCHANGED <<analysis, optimization, variants, calls, response>>

\* await update_one({"id": job_id}, {"$set": {"optimization": ...}})
step_write_optimization(j) ==
    /\ pc[j] = "write_optimization"
    /\ \E outcome \in StoreOutcomes :
         IF outcome = "ok"
         THEN /\ store' = update_one(store, j,
                                     [optimization |-> optimization[j]])
              /\ pc' = [pc EXCEPT ![j] = "vary"]
              /\ exc' = exc
         ELSE /\ store' = store
              /\ pc' = [pc EXCEPT ![j] = "except"]
              /\ exc' = [exc EXCEPT ![j] = Some(StoreError)]
    /\ UNCHANGED <<analysis, optimization, variants, calls, response>>

\* Step 3: variants = await generate_variants_with_ai(...)
step_vary(j) ==
    /\ pc[j] = "vary"
    /\ \E outcome \in AdapterOutcomes :
         /\ calls' = [calls EXCEPT ![j] = Append(@, Call("vary", outcome))]
         /\ IF outcome = "returns"
            THEN /\ variants' = [variants EXCEPT ![j] = Some(VariantsOk)]
                 /\ pc' = [pc EXCEPT ![j] = "write_completed"]
                 /\ exc' = exc
            ELSE /\ variants' = variants
                 /\ pc' = [pc EXCEPT ![j] = "except"]
                 /\ exc' = [exc EXCEPT ![j] = Some(VariantsError)]
    /\ UNCHANGED <<store, analysis, optimization, response>>

\* Mutant: the final update marks the job completed without its variants.
CompletedFields_no_variants(v, t) ==
    [status |-> "completed", completed_at |-> Some(t)]

\* The $set of the final update: variants, status and completed_at together.
CompletedFields(v, t) ==
    [variants |-> v, status |-> "completed", completed_at |-> Some(t)]

\* Mutant: the final update is not the last statement of the try block; a
\* statement after it raises and the except clause runs on a completed job.
step_write_completed_then_raise(j) ==
    /\ pc[j] = "write_completed"
    /\ \E outcome \in StoreOutcomes, t \in Times :
         store' = IF outcome = "ok"
                  THEN update_one(store, j, CompletedFields(variants[j], t))
                  ELSE store
    /\ pc' = [pc EXCEPT ![j] = "except"]
    /\ exc' = [exc EXCEPT ![j] = Some(StoreError)]
    /\ UNCHANGED <<analysis, optimization, variants, calls, response>>

\* await update_one(..., {"$set": {variants, status: completed, completed_at}})
\* It is the last statement of the try block: the task returns after it.
step_write_completed(j) ==
    /\ pc[j] = "write_completed"
    /\ \E outcome \in StoreOutcomes :
         IF outcome = "ok"
         THEN /\ \E t \in Times :
                   store' = update_one(store, j,
                                       CompletedFields(variants[j], t))
              /\ pc' = [pc EXCEPT ![j] = "done"]
              /\ exc' = exc
         ELSE /\ store' = store
              /\ pc' = [pc EXCEPT ![j] = "except"]
              /\ exc' = [exc EXCEPT ![j] = Some(StoreError)]
    /\ UNCHANGED <<analysis, optimization, variants, calls, response>>

\* Mutant: the except clause rolls the partial results back.
FailedFields_rollback(e, t) ==
    [status |-> "failed", error |-> e, completed_at |-> Some(t),
     analysis |-> None, optimization |-> None, variants |-> None]

\* Mutant: the except clause does not stamp the failure.
FailedFields_no_completed_at(e, t) ==
    [status |-> "failed", error |-> e]

\* The $set of the except clause: status, error and completed_at together.
FailedFields(e, t) ==
    [status |-> "failed", error |-> e, completed_at |-> Some(t)]

\* Mutant: the except clause gives up without writing when the exception
\* it caught came from the store.
step_except_skipping(j) ==
    /\ pc[j] = "except"
    /\ \E outcome \in StoreOutcomes, t \in Times :
         IF outcome = "ok" /\ exc[j] # Some(StoreError)
         THEN /\ store' = update_one(store, j, FailedFields(exc[j], t))
              /\ pc' = [pc EXCEPT ![j] = "done"]
         ELSE /\ store' = store
              /\ pc' = [pc EXCEPT ![j] = IF outcome = "ok" THEN "done"
                                         ELSE "crashed"]
    /\ UNCHANGED <<analysis, optimization, variants, exc, calls, response>>

\* except Exception as e: await update_one(..., {"$set": {status: failed,
\* error: str(e), completed_at}}).  Nothing guards this write: when it
\* raises, the exception leaves the task.
step_except(j) ==
    /\ pc[j] = "except"
    /\ \E outcome \in StoreOutcomes :
         IF outcome = "ok"
         THEN /\ \E t \in Times :
                   store' = update_one(store, j, FailedFields(exc[j], t))
              /\ pc' = [pc EXCEPT ![j] = "done"]
         ELSE /\ store' = store
              /\ pc' = [pc EXCEPT ![j] = "crashed"]
    /\ UNCHANGED <<analysis, optimization, variants, exc, calls, response>>

\* One step of the background task of job j.
process_content_job(j) ==
    \/ step_analyze(j)
    \/ step_write_analysis(j)
    \/ step_optimize(j)
    \/ step_write_optimization(j)
    \/ step_vary(j)
    \/ step_write_completed(j)
    \/ step_except(j)

\* DELETE /content/job/{job_id} on a job that has a record.
delete_job(j) ==
    /\ store[j] # NoRecord
    /\ store' = [store EXCEPT ![j] = NoRecord]
    /\ UNCHANGED <<pc, analysis, optimization, variants, exc, calls, response>>

Next ==
    \/ \E j \in Jobs : submit_content(j) /\ UNCHANGED requestVars
    \/ \E j \in Jobs : step_analyze(j) /\ UNCHANGED requestVars
    \/ \E j \in Jobs : step_write_analysis(j) /\ UNCHANGED requestVars
    \/ \E j \in Jobs : step_optimize(j) /\ UNCHANGED requestVars
    \/ \E j \in Jobs : step_write_optimization(j) /\ UNCHANGED requestVars
    \/ \E j \in Jobs : step_vary(j) /\ UNCHANGED requestVars
    \/ \E j \in Jobs : step_write_completed(j) /\ UNCHANGED requestVars
    \/ \E j \in Jobs : step_except(j) /\ UNCHANGED requestVars
    \/ \E j \in Jobs : delete_job(j) /\ UNCHANGED requestVars

Spec == Init /\ [][Next]_vars

\* The same operations on the job identifiers in LiveJobs.
NextLive ==
    \/ \E j \in LiveJobs : submit_content(j) /\ UNCHANGED requestVars
    \/ \E j \in LiveJobs : step_analyze(j) /\ UNCHANGED requestVars
    \/ \E j \in LiveJobs : step_write_analysis(j) /\ UNCHANGED requestVars
    \/ \E j \in LiveJobs : step_optimize(j) /\ UNCHANGED requestVars
    \/ \E j \in LiveJobs : step_write_optimization(j) /\ UNCHANGED requestVars
    \/ \E j \in LiveJobs : step_vary(j) /\ UNCHANGED requestVars
    \/ \E j \in LiveJobs : step_write_completed(j) /\ UNCHANGED requestVars
    \/ \E j \in LiveJobs : step_except(j) /\ UNCHANGED requestVars
    \/ \E j \in LiveJobs : delete_job(j) /\ UNCHANGED requestVars

\* The event loop runs every queued background task: each job's task keeps
\* taking steps while it has one to take.  Submissions and deletions are
\* the clients' choice and carry no fairness.
SpecLive ==
    /\ Init
    /\ [][NextLive]_vars
    /\ \A j \in LiveJobs :
           WF_vars(process_content_job(j) /\ UNCHANGED requestVars)

(* ------------------------------------------------ vocabulary of the claims *)
HasRecord(j) == store[j] # NoRecord
Terminal(status) == status \in {"completed", "failed"}
\* The background task of job j has ended: it returned, or an exception
\* left it.
TaskEnded(j) == pc[j] \in {"done", "crashed"}
\* The send_message call of a stage was made for job j and raised.
AdapterFailed(j, stage) ==
    \E i \in 1..Len(calls[j]) : calls[j][i] = Call(stage, "raises")
AdapterNeverFailed(j) ==
    \A i \in 1..Len(calls[j]) : calls[j][i].outcome = "returns"
ResultFields == {"analysis", "optimization", "variants"}

(* -------------------------------------------------------------------- C1 *)
\* C1: the persisted status of a job only ever changes processing ->
\* completed or processing -> failed: a record is created with
\* status = processing, and a record whose status is completed or failed
\* keeps that status in every later step that leaves the record in place.
C1_StatusForwardOnly ==
    [][\A j \in Jobs :
        /\ (~HasRecord(j) /\ store'[j] # NoRecord)
              => store'[j].status = "processing"
        /\ (HasRecord(j) /\ store'[j] # NoRecord
                /\ store'[j].status # store[j].status)
              => /\ store[j].status = "processing"
                 /\ Terminal(store'[j].status)]_vars

\* One job has gone processing -> completed and another processing -> failed.
C1_Witness ==
    \E j, k \in Jobs :
        /\ HasRecord(j) /\ store[j].status = "completed" /\ pc[j] = "done"
        /\ HasRecord(k) /\ store[k].status = "failed" /\ pc[k] = "done"

(* -------------------------------------------------------------------- C2 *)
\* C2: in every state of every job record the result fields form a prefix
\* of analysis, optimization, variants.
C2_ResultPrefix ==
    \A j \in Jobs :
        HasRecord(j) =>
            /\ store[j].variants # None => store[j].optimization # None
            /\ store[j].optimization # None => store[j].analysis # None

\* A record holds analysis and optimization while variants is still absent.
C2_Witness ==
    \E j \in Jobs :
        /\ HasRecord(j)
        /\ store[j].analysis # None
        /\ store[j].optimization # None
        /\ store[j].variants = None

(* -------------------------------------------------------------------- C3 *)
\* C3: a job record with status = completed has analysis, optimization and
\* variants all non-null.
C3_CompletedHasAll ==
    \A j \in Jobs :
        (HasRecord(j) /\ store[j].status = "completed") =>
            \A f \in ResultFields : store[j][f] # None

\* A job has been completed by the final update of its pipeline.
C3_Witness ==
    \E j \in Jobs :
        HasRecord(j) /\ store[j].status = "completed" /\ pc[j] = "done"

(* -------------------------------------------------------------------- C4 *)
\* A write of one of the three stages raised for job j (the except clause
\* was entered with the store's exception), or the write of the except
\* clause itself raised.
StoreWriteFailed(j) == exc[j] = Some(StoreError) \/ pc[j] = "crashed"
CompletedWithAll(j) ==
    /\ HasRecord(j)
    /\ store[j].status = "completed"
    /\ \A f \in ResultFields : store[j][f] # None

\* C4 as stated: when the task of a job has ended and none of its
\* send_message calls raised, the job is completed with analysis,
\* optimization and variants populated.
C4_AsStated ==
    \A j \in Jobs :
        (TaskEnded(j) /\ AdapterNeverFailed(j)) => CompletedWithAll(j)

\* C4, amended: under fair scheduling of the background task, a submitted
\* job eventually is completed with all three result fields populated,
\* unless a send_message call raised, a persistence write of its pipeline
\* raised, or its record was deleted.
C4_EventuallyCompleted ==
    \A j \in Jobs :
        (pc[j] = "analyze") ~>
            (\/ CompletedWithAll(j)
             \/ ~AdapterNeverFailed(j)
             \/ StoreWriteFailed(j)
             \/ ~HasRecord(j))

\* A job ran its three adapter calls without a failure and is completed.
C4_Witness ==
    \E j \in Jobs :
        /\ Len(calls[j]) = 3
        /\ AdapterNeverFailed(j)
        /\ ~StoreWriteFailed(j)
        /\ CompletedWithAll(j)

(* -------------------------------------------------------------------- C5 *)
\* The adapter was called once for analyze, once for optimize, and the
\* optimize call raised: no vary call, no second call of any stage.
OptimizeFailedCalls(j) ==
    /\ Len(calls[j]) = 2
    /\ calls[j][1].stage = "analyze"
    /\ calls[j][2] = Call("optimize", "raises")

OptimizeFailureRecorded(j) ==
    /\ store[j].status = "failed"
    /\ store[j].analysis # None
    /\ store[j].optimization = None
    /\ store[j].variants = None
    /\ store[j].error # None
    /\ store[j].error # Some("")

\* C5 as stated: when the optimize adapter call failed, the job ends with
\* status = failed, analysis non-null, optimization and variants null and
\* a non-empty error; vary is never executed and no stage is retried.
C5_AsStated ==
    \A j \in Jobs :
        AdapterFailed(j, "optimize") =>
            /\ OptimizeFailedCalls(j)
            /\ TaskEnded(j) => (HasRecord(j) /\ OptimizeFailureRecorded(j))

\* C5, amended: when the optimize adapter call failed, vary is never
\* executed and no stage is retried; the task goes to the except clause and
\* ends; a job whose record is still there ends with status = failed,
\* analysis non-null, optimization and variants null and the error
\* "500: Optimization failed" when the update of the except clause
\* returned, and stays status = processing with error and completed_at
\* null, analysis non-null, when that update raised.
C5_OptimizeFailure ==
    \A j \in Jobs :
        AdapterFailed(j, "optimize") =>
            /\ OptimizeFailedCalls(j)
            /\ pc[j] \in {"except", "done", "crashed"}
            /\ exc[j] = Some(OptimizationError)
            /\ (pc[j] = "done" /\ HasRecord(j)) =>
                  /\ OptimizeFailureRecorded(j)
                  /\ store[j].error = Some(OptimizationError)
            /\ (pc[j] # "done" /\ HasRecord(j)) =>
                  /\ store[j].status = "processing"
                  /\ store[j].analysis # None
                  /\ store[j].optimization = None
                  /\ store[j].variants = None
                  /\ store[j].error = None
                  /\ store[j].completed_at = None

\* The optimize call of a job raised and the except clause recorded it.
C5_Witness ==
    \E j \in Jobs :
        /\ AdapterFailed(j, "optimize")
        /\ pc[j] = "done"
        /\ HasRecord(j)
        /\ OptimizeFailureRecorded(j)

(* -------------------------------------------------------------------- C6 *)
\* C6: a failure of the analyze adapter call never drives the job to
\* failed.  analyze_content_with_ai returns the fallback AnalysisResult
\* (tone "Unable to analyze", the three fixed suggestions) and the task goes
\* on to the analysis write with no exception bound; once that write has
\* returned the record holds the fallback analysis and the task is at the
\* optimize stage; a job that ends failed after it has another fault (the
\* optimize or vary call raised, or a write raised), and a job that ends
\* with no other fault is completed.
C6_AnalyzeFailureAbsorbed ==
    \A j \in Jobs :
        AdapterFailed(j, "analyze") =>
            /\ analysis[j] = Some(AnalysisFallback)
            /\ AnalysisFallback.tone = "Unable to analyze"
            /\ Len(AnalysisFallback.suggestions) = 3
            /\ pc[j] = "write_analysis" =>
                  /\ exc[j] = None
                  /\ HasRecord(j) => store[j].status = "processing"
            /\ (HasRecord(j) /\ Len(calls[j]) >= 2) =>
                  store[j].analysis = Some(AnalysisFallback)
            /\ (HasRecord(j) /\ store[j].status = "failed") =>
                  \/ AdapterFailed(j, "optimize")
                  \/ AdapterFailed(j, "vary")
                  \/ exc[j] = Some(StoreError)
            /\ (HasRecord(j) /\ TaskEnded(j)
                    /\ ~AdapterFailed(j, "optimize")
                    /\ ~AdapterFailed(j, "vary")
                    /\ ~StoreWriteFailed(j)) =>
                  /\ store[j].status = "completed"
                  /\ store[j].analysis = Some(AnalysisFallback)

\* The analyze call of a job raised, the fallback analysis was persisted
\* and the optimize stage was reached.
C6_Witness ==
    \E j \in Jobs :
        /\ AdapterFailed(j, "analyze")
        /\ HasRecord(j)
        /\ store[j].analysis = Some(AnalysisFallback)
        /\ store[j].status = "processing"
        /\ pc[j] = "optimize"

(* -------------------------------------------------------------------- C7 *)
\* C7 as stated: when a persistence write of a pipeline stage raised, the
\* job terminates with status = failed and a recorded error.
C7_AsStated ==
    \A j \in Jobs :
        (StoreWriteFailed(j) /\ TaskEnded(j) /\ HasRecord(j)) =>
            /\ store[j].status = "failed"
            /\ store[j].error # None

\* C7, amended: when a persistence write of a pipeline stage raised, the
\* task runs the except clause, whose single update is not guarded: if it
\* returns, the job terminates with status = failed, the store's error and
\* completed_at recorded; if it raises too, the exception leaves the task
\* and the job stays status = processing with error and completed_at null.
C7_WriteFailure ==
    \A j \in Jobs :
        /\ exc[j] = Some(StoreError) => pc[j] \in {"except", "done", "crashed"}
        /\ (exc[j] = Some(StoreError) /\ pc[j] = "done" /\ HasRecord(j)) =>
              /\ store[j].status = "failed"
              /\ store[j].error = Some(StoreError)
              /\ store[j].completed_at # None
        /\ (pc[j] \in {"except", "crashed"} /\ HasRecord(j)) =>
              /\ store[j].status = "processing"
              /\ store[j].error = None
              /\ store[j].completed_at = None

\* One job's failed write was recorded, another's could not be recorded.
C7_Witness ==
    \E j, k \in Jobs :
        /\ exc[j] = Some(StoreError) /\ pc[j] = "done" /\ HasRecord(j)
        /\ store[j].status = "failed"
        /\ exc[k] = Some(StoreError) /\ pc[k] = "crashed" /\ HasRecord(k)
        /\ store[k].status = "processing"

(* -------------------------------------------------------------------- C8 *)
\* C8: once a result field of a job record is non-null, no later step that
\* leaves the record in place changes or clears it; the transition to
\* failed keeps analysis, optimization and variants as persisted.
C8_ResultsKept ==
    [][\A j \in Jobs : \A f \in ResultFields :
        (HasRecord(j) /\ store[j][f] # None /\ store'[j] # NoRecord)
            => store'[j][f] = store[j][f]]_vars

\* A job failed at the vary stage with analysis and optimization persisted.
C8_Witness ==
    \E j \in Jobs :
        /\ HasRecord(j)
        /\ store[j].status = "failed"
        /\ store[j].analysis # None
        /\ store[j].optimization # None
        /\ store[j].error = Some(VariantsError)

(* -------------------------------------------------------------------- C9 *)
\* C9: for every job record completed_at is null exactly while
\* status = processing; it is written in the update that takes the status
\* from processing to completed or failed, and never written again.
C9_CompletedAtOnce ==
    [][\A j \in Jobs :
        /\ store'[j] # NoRecord =>
              (store'[j].completed_at = None
                  <=> store'[j].status = "processing")
        /\ (HasRecord(j) /\ store'[j] # NoRecord
                /\ store'[j].completed_at # store[j].completed_at)
              => /\ store[j].completed_at = None
                 /\ store[j].status = "processing"
                 /\ Terminal(store'[j].status)]_vars

\* A job failed and its record carries the instant of the failure.
C9_Witness ==
    \E j \in Jobs :
        /\ HasRecord(j)
        /\ store[j].status = "failed"
        /\ store[j].completed_at = Some(MaxTime)

(* ------------------------------------------------------------------- C10 *)
\* What submit_content answers for job j.
Accepted(j) == Some([job_id |-> j, status |-> "processing"])

\* C10: a submission whose insert returns leaves a record with
\* status = processing and analysis, optimization, variants, completed_at
\* and error all null, before any adapter call of that job is made, and
\* answers {job_id, status = "processing"}; a submission whose insert raises
\* leaves no record and starts no task.  No step of the pipeline, whatever
\* fails in it, changes the answer.
C10_SubmitThenPipeline ==
    [][\A j \in Jobs :
        /\ (pc[j] = "idle" /\ pc'[j] # "idle") =>
              \/ /\ pc'[j] = "rejected"
                 /\ store'[j] = NoRecord
              \/ /\ pc'[j] = "analyze"
                 /\ store'[j] # NoRecord
                 /\ store'[j].status = "processing"
                 /\ store'[j].analysis = None
                 /\ store'[j].optimization = None
                 /\ store'[j].variants = None
                 /\ store'[j].completed_at = None
                 /\ store'[j].error = None
                 /\ calls'[j] = <<>>
                 /\ response'[j] = Accepted(j)
        /\ pc[j] # "idle" => response'[j] = response[j]
        /\ pc'[j] \notin {"idle", "rejected"} => response'[j] = Accepted(j)
        /\ pc'[j] = "rejected" => (calls'[j] = <<>> /\ store'[j] = NoRecord)
      ]_vars

\* The pipeline of a job failed twice, in a write and in the except clause,
\* and the submission's answer is the one given before it ran.
C10_Witness ==
    \E j \in Jobs :
        /\ pc[j] = "crashed"
        /\ exc[j] = Some(StoreError)
        /\ response[j] = Accepted(j)

(* --------------------------------------- GET and DELETE /content/job/{id} *)
\* raise HTTPException(status_code=..., detail=...)
HTTPException(status_code, detail) ==
    [status_code |-> status_code, detail |-> detail]

JobNotFound == HTTPException(404, "Job not found")

\* What a request answered: the request, the job id in its path, the answer.
Answer(request, j, answer) ==
    Some([request |-> request, id |-> j, answer |-> answer])

\* GET /content/job/{job_id}: one find_one, which writes nothing.
get_job_status(j) ==
    /\ reply' = Answer("get_job_status", j,
                       IF store[j] = NoRecord THEN JobNotFound
                       ELSE [status_code |-> 200, job |-> store[j]])
    /\ UNCHANGED <<jobVars, stats, arg, ret>>

\* DELETE /content/job/{job_id} with its answer: one delete_one, then
\* not-found when result.deleted_count == 0.
delete_job_request(j) ==
    \/ /\ delete_job(j)
       /\ reply' = Answer("delete_job", j,
                          [status_code |-> 200,
                           message |-> "Job deleted successfully"])
       /\ UNCHANGED <<stats, arg, ret>>
    \/ /\ store[j] = NoRecord
       /\ reply' = Answer("delete_job", j, JobNotFound)
       /\ UNCHANGED <<jobVars, stats, arg, ret>>

\* The pipeline of the jobs in ApiJobs, with clients that poll and delete.
NextApi ==
    \/ \E j \in ApiJobs : submit_content(j) /\ UNCHANGED requestVars
    \/ \E j \in ApiJobs : step_analyze(j) /\ UNCHANGED requestVars
    \/ \E j \in ApiJobs : step_write_analysis(j) /\ UNCHANGED requestVars
    \/ \E j \in ApiJobs : step_optimize(j) /\ UNCHANGED requestVars
    \/ \E j \in ApiJobs : step_write_optimization(j) /\ UNCHANGED requestVars
    \/ \E j \in ApiJobs : step_vary(j) /\ UNCHANGED requestVars
    \/ \E j \in ApiJobs : step_write_completed(j) /\ UNCHANGED requestVars
    \/ \E j \in ApiJobs : step_except(j) /\ UNCHANGED requestVars
    \/ \E j \in ApiJobs : delete_job_request(j)
    \/ \E j \in ApiJobs : get_job_status(j)

SpecApi == Init /\ [][NextApi]_vars

(* -------------------------------------------------------------------- C11 *)
\* The record of job j was inserted and has been deleted.
Deleted(j) == pc[j] \notin {"idle", "rejected"} /\ store[j] = NoRecord

\* This step is the answer of the given request for job j.
Answered(request, j) ==
    /\ reply' # reply
    /\ reply' # None
    /\ reply'[1].request = request
    /\ reply'[1].id = j

\* C11: delete_job on an identifier without a record answers not-found and
\* changes nothing; delete_job on an existing job removes its record, and
\* from then on the record stays absent through every later step of the
\* job's pipeline, so that every get_job_status for it answers not-found.
C11_DeletedStaysDeleted ==
    [][\A j \in Jobs :
          /\ (Answered("delete_job", j) /\ store[j] = NoRecord) =>
                (reply'[1].answer = JobNotFound /\ UNCHANGED jobVars)
          /\ (Answered("delete_job", j) /\ store[j] # NoRecord) =>
                (reply'[1].answer.status_code = 200 /\ Deleted(j)')
          /\ Deleted(j) => Deleted(j)'
          /\ (Answered("get_job_status", j) /\ Deleted(j)) =>
                reply'[1].answer = JobNotFound]_vars

\* A job deleted whose pipeline has run to its end, and a poll for it that
\* was answered not-found.
C11_Witness ==
    \E j \in Jobs :
        /\ Deleted(j)
        /\ pc[j] = "done"
        /\ Len(calls[j]) = 3
        /\ reply = Answer("get_job_status", j, JobNotFound)

(* -------------------------------------------------------------------- C12 *)
\* The background task of job j is at one of its awaits.
InTask(j) ==
    pc[j] \in {"analyze", "write_analysis", "optimize", "write_optimization",
               "vary", "write_completed", "except"}

\* C12: every step of process_content_job for job j leaves the record of
\* every other job k unchanged, whatever the other pipelines are doing.
C12_OtherRecordsUntouched ==
    [][\A j \in Jobs :
          (InTask(j) /\ pc'[j] # pc[j]) =>
              \A k \in Jobs \ {j} : store'[k] = store[k]]_vars

\* Two pipelines in flight at once, each having written a result of its own
\* into its own record.
C12_Witness ==
    \E j \in Jobs : \E k \in Jobs \ {j} :
        /\ InTask(j) /\ InTask(k)
        /\ HasRecord(j) /\ HasRecord(k)
        /\ store[j].optimization # None
        /\ store[k].analysis # None /\ store[k].optimization = None

(* -------------------------------------------------------------------- C18 *)
\* The stages of the pipeline, in the order of their send_message calls.
Stages == <<"analyze", "optimize", "vary">>

\* C18: the send_message calls of one job are made in the order analyze,
\* optimize, vary, each at most once; the optimize call is made only when
\* the analysis write has returned (the record, if it still exists, holds
\* the analysis), the vary call only when the optimization write has.
C18_StagesInOrder ==
    [][\A j \in Jobs :
          calls'[j] # calls[j] =>
              LET n == Len(calls'[j])
                  stage == calls'[j][n].stage
              IN  /\ n = Len(calls[j]) + 1
                  /\ SubSeq(calls'[j], 1, n - 1) = calls[j]
                  /\ n <= Len(Stages)
                  /\ stage = Stages[n]
                  /\ stage = "optimize" =>
                        /\ pc[j] = "optimize"
                        /\ analysis[j] # None
                        /\ HasRecord(j) => store[j].analysis = analysis[j]
                  /\ stage = "vary" =>
                        /\ pc[j] = "vary"
                        /\ optimization[j] # None
                        /\ HasRecord(j) =>
                              /\ store[j].analysis = analysis[j]
                              /\ store[j].optimization = optimization[j]]_vars

\* All three stages of a job were called, and its record holds what the
\* analyze and optimize stages wrote before the vary call.
C18_Witness ==
    \E j \in Jobs :
        /\ Len(calls[j]) = 3
        /\ pc[j] = "write_completed"
        /\ HasRecord(j)
        /\ store[j].analysis # None /\ store[j].optimization # None
        /\ store[j].variants = None

(* -------------------------------------------------------------- GET /stats *)
\* db.content_jobs.count_documents(filter): the filter is {} (None) or
\* {"status": s} (Some(s)).
count_documents(coll, filter) ==
    Cardinality({j \in DOMAIN coll :
                    /\ coll[j] # NoRecord
                    /\ filter = None \/ coll[j].status = filter[1]})

\* total_jobs = await count_documents({})
get_stats_total ==
    /\ stats.pc \in {"idle", "returned"}
    /\ stats' = [StatsIdle EXCEPT
                    !.pc = "count_completed",
                    !.total_jobs = Some(count_documents(store, None))]
    /\ UNCHANGED <<jobVars, reply, arg, ret>>

\* completed_jobs = await count_documents({"status": "completed"})
get_stats_completed ==
    /\ stats.pc = "count_completed"
    /\ stats' = [stats EXCEPT
                    !.pc = "count_processing",
                    !.completed_jobs =
                        Some(count_documents(store, Some("completed")))]
    /\ UNCHANGED <<jobVars, reply, arg, ret>>

\* processing_jobs = await count_documents({"status": "processing"})
get_stats_processing ==
    /\ stats.pc = "count_processing"
    /\ stats' = [stats EXCEPT
                    !.pc = "count_failed",
                    !.processing_jobs =
                        Some(count_documents(store, Some("processing")))]
    /\ UNCHANGED <<jobVars, reply, arg, ret>>

\* failed_jobs = await count_documents({"status": "failed"})
get_stats_failed ==
    /\ stats.pc = "count_failed"
    /\ stats' = [stats EXCEPT
                    !.pc = "find_completed",
                    !.failed_jobs =
                        Some(count_documents(store, Some("failed")))]
    /\ UNCHANGED <<jobVars, reply, arg, ret>>

\* completed = await find({"status": "completed"}).to_list(100), then the
\* averages over the documents that have an analysis, and the return.  Of the
\* averages the model keeps how many documents they are taken over.
get_stats_return ==
    /\ stats.pc = "find_completed"
    /\ stats' = [stats EXCEPT
                    !.pc = "returned",
                    !.scored =
                        Some(Cardinality({j \in DOMAIN store :
                                /\ store[j] # NoRecord
                                /\ store[j].status = "completed"
                                /\ store[j].analysis # None}))]
    /\ UNCHANGED <<jobVars, reply, arg, ret>>

\* The pipeline of the jobs in ApiJobs, deletions, and a client that asks for
\* the statistics again and again.
NextStats ==
    \/ \E j \in ApiJobs : submit_content(j) /\ UNCHANGED requestVars
    \/ \E j \in ApiJobs : step_analyze(j) /\ UNCHANGED requestVars
    \/ \E j \in ApiJobs : step_write_analysis(j) /\ UNCHANGED requestVars
    \/ \E j \in ApiJobs : step_optimize(j) /\ UNCHANGED requestVars
    \/ \E j \in ApiJobs : step_write_optimization(j) /\ UNCHANGED requestVars
    \/ \E j \in ApiJobs : step_vary(j) /\ UNCHANGED requestVars
    \/ \E j \in ApiJobs : step_write_completed(j) /\ UNCHANGED requestVars
    \/ \E j \in ApiJobs : step_except(j) /\ UNCHANGED requestVars
    \/ \E j \in ApiJobs : delete_job(j) /\ UNCHANGED requestVars
    \/ get_stats_total
    \/ get_stats_completed
    \/ get_stats_processing
    \/ get_stats_failed
    \/ get_stats_return

SpecStats == Init /\ [][NextStats]_vars

(* -------------------------------------------------------------------- C20 *)
\* C20 as stated: in every answer of get_stats the total is the sum of the
\* completed, processing and failed counts.
C20_AsStated ==
    stats.pc = "returned" =>
        stats.total_jobs[1] = stats.completed_jobs[1]
                              + stats.processing_jobs[1]
                              + stats.failed_jobs[1]

(* ------------------------------------------------------------ characters *)
\* A str is a sequence of one-character strings.
LowerLetters ==
    <<"a", "b", "c", "d", "e", "f", "g", "h", "i", "j", "k", "l", "m",
      "n", "o", "p", "q", "r", "s", "t", "u", "v", "w", "x", "y", "z">>
UpperLetters ==
    <<"A", "B", "C", "D", "E", "F", "G", "H", "I", "J", "K", "L", "M",
      "N", "O", "P", "Q", "R", "S", "T", "U", "V", "W", "X", "Y", "Z">>
Range(s) == {s[i] : i \in DOMAIN s}
Digits == {"0", "1", "2", "3", "4", "5", "6", "7", "8", "9"}
\* What str.split() with no argument splits on.
Whitespace == {" ", "\t", "\n", "\r"}
\* The class [.!?] of the sentence pattern.
Terminators == {".", "!", "?"}
\* The class [aeiouy] of the syllable pattern.
Vowels == {"a", "e", "i", "o", "u", "y"}
\* The class \w of the keyword pattern.
WordChars == Range(LowerLetters) \cup Range(UpperLetters) \cup Digits \cup {"_"}
\* Every character of the texts the functions are applied to.
Chars == WordChars \cup Whitespace \cup Terminators \cup {",", "-"}
NonSpace == Chars \ Whitespace

\* str.lower(), character by character.
LowerChar(c) ==
    IF c \in Range(UpperLetters)
    THEN LowerLetters[CHOOSE i \in DOMAIN UpperLetters : UpperLetters[i] = c]
    ELSE c
lower(s) == SubSeq([i \in DOMAIN s |-> LowerChar(s[i])], 1, Len(s))

(* ------------------------------------------------- runs of a character class *)
\* The positions where a maximal run of characters of the class S starts.
RunStarts(s, S) ==
    {i \in DOMAIN s : s[i] \in S /\ (i = 1 \/ s[i - 1] \notin S)}

\* The last position of the run of S that holds position i.
RECURSIVE RunEnd(_, _, _)
RunEnd(s, i, S) ==
    IF i < Len(s) /\ s[i + 1] \in S THEN RunEnd(s, i + 1, S) ELSE i

\* The k-th smallest element of a set of positions.
Nth(P, k) == CHOOSE a \in P : Cardinality({b \in P : b <= a}) = k

\* re.findall of a pattern [class]+ : the maximal runs of S, in order.
findall(s, S) ==
    LET starts == RunStarts(s, S)
        n == Cardinality(starts)
    IN  SubSeq([k \in 1..n |->
                   LET a == Nth(starts, k) IN SubSeq(s, a, RunEnd(s, a, S))],
               1, n)

\* re.split on a pattern [class]+ : the pieces of s between the runs of S,
\* in order, the empty pieces before a leading run and after a trailing run
\* included; one piece more than there are runs.
re_split(s, S) ==
    LET starts == RunStarts(s, S)
        n == Cardinality(starts)
        From(k) == IF k = 1 THEN 1
                   ELSE RunEnd(s, Nth(starts, k - 1), S) + 1
        To(k) == IF k = n + 1 THEN Len(s) ELSE Nth(starts, k) - 1
    IN  SubSeq([k \in 1..(n + 1) |-> SubSeq(s, From(k), To(k))], 1, n + 1)

\* len(text.split()): the number of whitespace-delimited words.
CountWords(s) == Cardinality(RunStarts(s, NonSpace))

\* set(w.lower() for w in text.split())
WordSet(s) ==
    {lower(SubSeq(s, a, RunEnd(s, a, NonSpace))) : a \in RunStarts(s, NonSpace)}

\* sum(len(re.findall(r'[aeiouy]+', word.lower())) for word in text.split()):
\* the vowel runs of the lowercased words, each named by its word and place.
CountSyllables(s) ==
    Cardinality(
        UNION {{<<a, v>> : v \in {i \in a..RunEnd(s, a, NonSpace) :
                                   /\ LowerChar(s[i]) \in Vowels
                                   /\ i = a \/ LowerChar(s[i - 1]) \notin Vowels}}
               : a \in RunStarts(s, NonSpace)})

\* needle in haystack
Contains(haystack, needle) ==
    \E i \in 0..(Len(haystack) - Len(needle)) :
        SubSeq(haystack, i + 1, i + Len(needle)) = needle

(* ------------------------------------------------------- float results *)
\* A score is the fraction num/den, den > 0.
Frac(num, den) == [num |-> num, den |-> den]
Min(a, b) == IF a <= b THEN a ELSE b
Max(a, b) == IF a >= b THEN a ELSE b

\* max(0, min(100, num/den))
Clamp(num, den) == Frac(Max(0, Min(100 * den, num)), den)

\* 206.835 - 1.015 * (words / sentences) - 84.6 * (syllables / words), as
\* the fraction over 200 * sentences * words.
FleschScore(words, sentences, syllables) ==
    Frac(41367 * sentences * words - 203 * words * words
             - 16920 * syllables * sentences,
         200 * sentences * words)

\* Mutant: the score is returned as computed, without max(0, min(100, .)).
calculate_readability_unclamped(text) ==
    LET words == CountWords(text)
        sentences == Len(re_split(text, Terminators))
    IN  IF sentences = 0 \/ words = 0 THEN Frac(0, 1)
        ELSE FleschScore(words, sentences, CountSyllables(text))

calculate_readability(text) ==
    LET words == CountWords(text)
        sentences == Len(re_split(text, Terminators))
        syllables == CountSyllables(text)
        score == FleschScore(words, sentences, syllables)
    IN  IF sentences = 0 \/ words = 0 THEN Frac(0, 1)
        ELSE Clamp(score.num, score.den)

calculate_seo_score(text, title) ==
    LET word_count == CountWords(text)
        length == IF 300 <= word_count /\ word_count <= 2000 THEN 30
                  ELSE IF word_count > 2000 THEN 20
                  ELSE 10
        in_title == IF Contains(lower(text), lower(title)) THEN 20 ELSE 0
        subheadings == IF "\n" \in Range(text) \/ Len(text) > 500
                       THEN 20 ELSE 0
        unique_words == Cardinality(WordSet(text))
        fixed == length + in_title + subheadings
    IN  IF word_count > 0
        THEN Frac(Min(100 * word_count,
                      fixed * word_count + 30 * unique_words), word_count)
        ELSE Frac(Min(100, fixed), 1)

(* ------------------------------------------------------------- binary64 *)
\* The densities are Python floats (IEEE 754 binary64).  A float x in
\* (0, 100] is held exactly as the natural number x * 2^60, written in
\* limbs of 13 bits, least significant first: every float that the density
\* of a count out of at most 64 tokens involves is a multiple of 2^-60.
Limbs == 1..6
LimbBase == 2^13
\* The limbs of a, written out.
Big(a) == <<a[1], a[2], a[3], a[4], a[5], a[6]>>
BigZero == Big([i \in Limbs |-> 0])
\* The natural number n < 2^26.
BigOfSmall(n) ==
    Big([i \in Limbs |-> IF i = 1 THEN n % LimbBase
                         ELSE IF i = 2 THEN n \div LimbBase ELSE 0])
\* The float 1.0: 2^60 = 2^8 * 2^(4 * 13).
FloatOne == Big([i \in Limbs |-> IF i = 5 THEN 2^8 ELSE 0])

RECURSIVE CarryAdd(_, _, _)
CarryAdd(a, b, i) ==
    IF i = 0 THEN 0 ELSE (a[i] + b[i] + CarryAdd(a, b, i - 1)) \div LimbBase
BigAdd(a, b) ==
    Big([i \in Limbs |-> (a[i] + b[i] + CarryAdd(a, b, i - 1)) % LimbBase])

RECURSIVE CarryMul(_, _, _)
CarryMul(a, m, i) ==
    IF i = 0 THEN 0 ELSE (a[i] * m + CarryMul(a, m, i - 1)) \div LimbBase
\* a * m for a natural number m < 2^17.
BigMulSmall(a, m) ==
    Big([i \in Limbs |-> (a[i] * m + CarryMul(a, m, i - 1)) % LimbBase])

\* The remainder of the limbs i and above of a, divided by d < 2^17.
RECURSIVE RemDiv(_, _, _)
RemDiv(a, d, i) ==
    IF i \notin Limbs THEN 0
    ELSE (RemDiv(a, d, i + 1) * LimbBase + a[i]) % d
\* a divided by d: the quotient q and the remainder r.
BigDivSmall(a, d) ==
    [q |-> Big([i \in Limbs |->
                   (RemDiv(a, d, i + 1) * LimbBase + a[i]) \div d]),
     r |-> RemDiv(a, d, 1)]

BigLess(a, b) ==
    \E i \in Limbs : a[i] < b[i] /\ \A j \in Limbs : j > i => a[j] = b[j]
BigLeq(a, b) == a = b \/ BigLess(a, b)

\* The number of binary digits of a.
BitLen(a) ==
    LET top == {i \in Limbs : a[i] # 0}
        t == CHOOSE i \in top : \A j \in top : j <= i
    IN  IF top = {} THEN 0
        ELSE 13 * (t - 1)
             + (CHOOSE k \in 1..13 : 2^(k - 1) <= a[t] /\ a[t] < 2^k)

\* Round to nearest, ties to even, to 53 significant binary digits: the
\* float nearest to n + r/d, for a natural number n of at least 53 digits
\* and a fraction 0 <= r/d < 1.
RoundToFloat(n, r, d) ==
    LET ulp == 2^(BitLen(n) - 53)
        cut == BigDivSmall(n, ulp)
        twice == 2 * (cut.r * d + r)
        up == twice > ulp * d \/ (twice = ulp * d /\ cut.q[1] % 2 = 1)
    IN  BigMulSmall(IF up THEN BigAdd(cut.q, BigOfSmall(1)) ELSE cut.q, ulp)

\* The float v / total of two ints, 0 < v <= total.
FloatDiv(v, total) ==
    LET exact == BigDivSmall(BigMulSmall(FloatOne, v), total)
    IN  RoundToFloat(exact.q, exact.r, total)
\* The float x * m of a float x and a small natural number m.
FloatMulSmall(x, m) == RoundToFloat(BigMulSmall(x, m), 0, 1)

(* ------------------------------------------------------ extract_keywords *)
\* Mutant: the tokens of every length are kept.
KeywordTokens_any_length(text) ==
    LET found == findall(text, WordChars)
    IN  SubSeq([k \in DOMAIN found |-> lower(found[k])], 1, Len(found))

\* [w.lower() for w in re.findall(r'\w+', text) if len(w) > 3]
KeywordTokens(text) ==
    LET starts == {a \in RunStarts(text, WordChars) :
                      RunEnd(text, a, WordChars) - a + 1 > 3}
        n == Cardinality(starts)
    IN  SubSeq([k \in 1..n |->
                   LET a == Nth(starts, k)
                   IN  lower(SubSeq(text, a, RunEnd(text, a, WordChars)))],
               1, n)

\* The keys of word_freq in the order a dict keeps: that of first insertion.
FreqKeys(words) ==
    LET firsts == {k \in DOMAIN words : \A m \in 1..(k - 1) : words[m] # words[k]}
        n == Cardinality(firsts)
    IN  SubSeq([i \in 1..n |-> words[Nth(firsts, i)]], 1, n)

\* word_freq[key]
Freq(words, key) == Cardinality({k \in DOMAIN words : words[k] = key})

\* densities.items(): (v / total) * 100 for every key, in the dict's order.
Densities(words) ==
    LET keys == FreqKeys(words)
    IN  SubSeq([i \in DOMAIN keys |->
                   [key |-> keys[i],
                    density |-> FloatMulSmall(
                                    FloatDiv(Freq(words, keys[i]), Len(words)),
                                    100)]],
               1, Len(keys))

\* Mutant: a descending sort that puts the later of two equal items first.
sorted_reverse_unstable(items) ==
    LET Rank(i) ==
            Cardinality({j \in DOMAIN items :
                \/ BigLess(items[i].density, items[j].density)
                \/ items[j].density = items[i].density /\ j > i}) + 1
    IN  SubSeq([r \in DOMAIN items |->
                   items[CHOOSE i \in DOMAIN items : Rank(i) = r]],
               1, Len(items))

\* sorted(items, key=lambda x: x[1], reverse=True): descending by density;
\* the sort is stable, and with reverse=True items of equal density still
\* keep their original order.
sorted_reverse(items) ==
    LET Rank(i) ==
            Cardinality({j \in DOMAIN items :
                \/ BigLess(items[i].density, items[j].density)
                \/ items[j].density = items[i].density /\ j < i}) + 1
    IN  SubSeq([r \in DOMAIN items |->
                   items[CHOOSE i \in DOMAIN items : Rank(i) = r]],
               1, Len(items))

\* The mapping returned, as the sequence of its items in the dict's order.
extract_keywords(text) ==
    LET words == KeywordTokens(text)
        sorted_keywords == sorted_reverse(Densities(words))
    IN  IF words = <<>> THEN <<>>
        ELSE SubSeq(sorted_keywords, 1, Min(5, Len(sorted_keywords)))

(* ------------------------------------------- the AnalysisResult as a whole *)
\* The AnalysisResult analyze_content_with_ai returns for a content and a
\* title: the counts and keyword densities of the text, and the tone and
\* suggestions read from the response, or their fallbacks when send_message
\* raised.  The two scores, rounded to two decimals, are left out: they are
\* round(calculate_readability(content), 2) and
\* round(calculate_seo_score(content, title), 2).
AnalysisResult(title, content, outcome, answer) ==
    LET read == analyze_content_with_ai(outcome, answer)
    IN  [tone |-> read.tone,
         keyword_density |-> extract_keywords(content),
         word_count |-> CountWords(content),
         sentence_count |-> Len(re_split(content, Terminators)),
         suggestions |-> read.suggestions]

(* ---------------------------------------------------------------- inputs *)
\* Every text of at most MaxLen characters over a vowel, an upper-case
\* consonant, a blank, a terminator and a newline.
ShortTexts ==
    UNION {[1..n -> {"a", "T", " ", ".", "\n"}] : n \in 0..MaxLen}
ShortTitles == {<<"t">>, <<"A", "a">>}

\* Texts made of whole keyword tokens: a token repeated, then the first
\* tokens of BaseTokens, then any MaxExtra tokens of ExtraTokens.
BaseTokens ==
    << <<"z", "e", "t", "a">>, <<"d", "a", "t", "a">>, <<"b", "e", "t", "a">>,
       <<"a", "l", "f", "a">>, <<"c", "o", "d", "e">>, <<"j", "a", "v", "a">> >>
ExtraTokens ==
    { <<"j", "a", "v", "a">>, <<"b", "e", "t", "a">>, <<"Z", "e", "t", "a">>,
      <<"t", "h", "e">> }
RECURSIVE Join(_)
Join(tokens) ==
    IF tokens = <<>> THEN <<>>
    ELSE IF Len(tokens) = 1 THEN tokens[1]
    ELSE tokens[1] \o <<" ">> \o Join(Tail(tokens))
KeywordTexts ==
    {Join([i \in 1..r |-> BaseTokens[1]] \o SubSeq(BaseTokens, 1, k) \o extra) :
        r \in 0..MaxRepeat, k \in 0..Len(BaseTokens),
        extra \in UNION {[1..n -> ExtraTokens] : n \in 0..MaxExtra}}

\* Texts of one-letter words around the word counts and the length that
\* calculate_seo_score compares with.
LongTexts ==
    {SubSeq([i \in 1..(2 * n) |-> IF i % 2 = 1 THEN "a" ELSE " "], 1, 2 * n) :
        n \in {299, 300, 2000, 2001}}

ExampleTitle == <<"H", "e", "l", "l", "o", " ", "W", "o", "r", "l", "d">>
ExampleContent ==
    <<"H", "e", "l", "l", "o", " ", "w", "o", "r", "l", "d", ".", " ",
      "T", "h", "i", "s", " ", "i", "s", " ", "g", "r", "e", "a", "t", "!">>

\* Responses of the analyze prompt with and without a TONE line and with
\* 0..MaxItems numbered lines.
NumberedLines == <<"s1", "s2", "s3", "s4", "s5", "s6">>
ParseResponses ==
    {[tone |-> t, items |-> SubSeq(NumberedLines, 1, n)] :
        t \in {None, Some("Formal")}, n \in 0..MaxItems}
DefaultResponse == CHOOSE r \in AnalyzeResponses : TRUE

AnalyzeInput(title, content, answer) ==
    [title |-> title, content |-> content, response |-> answer]
TextInputs ==
    {AnalyzeInput(t, c, DefaultResponse) : t \in ShortTitles, c \in ShortTexts}
    \cup {AnalyzeInput(ExampleTitle, c, DefaultResponse) :
            c \in KeywordTexts \cup LongTexts \cup {ExampleContent}}
    \cup {AnalyzeInput(ExampleTitle, ExampleContent, r) : r \in ParseResponses}

(* --------------------------------------------- the functions, applied *)
\* What a call returned: the function and its value.
Returned(fn, value) == Some([fn |-> fn, value |-> value])

call_calculate_readability ==
    /\ arg # None /\ ret = None
    /\ ret' = Returned("calculate_readability",
                       calculate_readability(arg[1].content))
    /\ UNCHANGED <<jobVars, reply, stats, arg>>

call_calculate_seo_score ==
    /\ arg # None /\ ret = None
    /\ ret' = Returned("calculate_seo_score",
                       calculate_seo_score(arg[1].content, arg[1].title))
    /\ UNCHANGED <<jobVars, reply, stats, arg>>

call_extract_keywords ==
    /\ arg # None /\ ret = None
    /\ ret' = Returned("extract_keywords", extract_keywords(arg[1].content))
    /\ UNCHANGED <<jobVars, reply, stats, arg>>

\* analyze_content_with_ai on the input, its send_message call returning
\* the input's response or raising.
call_analyze_content_with_ai ==
    /\ arg # None /\ ret = None
    /\ \E outcome \in AdapterOutcomes :
         ret' = Some([fn |-> "analyze_content_with_ai",
                      outcome |-> outcome,
                      value |-> AnalysisResult(arg[1].title, arg[1].content,
                                               outcome, arg[1].response)])
    /\ UNCHANGED <<jobVars, reply, stats, arg>>

\* One input, drawn from TextInputs; no job, no request.
InitText ==
    /\ InitJobs
    /\ reply = None
    /\ stats = StatsIdle
    /\ arg \in {Some(x) : x \in TextInputs}
    /\ ret = None

NextText ==
    \/ call_calculate_readability
    \/ call_calculate_seo_score
    \/ call_extract_keywords
    \/ call_analyze_content_with_ai

SpecText == InitText /\ [][NextText]_vars


(* ------------------------------------ vocabulary of the text-function claims *)
\* The function fn has been applied to the input and has returned.
Called(fn) == ret # None /\ ret[1].fn = fn
Content == arg[1].content
\* The exact value of a float, in units of 2^-60, of 100.0 and of 2^-40.
Hundred == BigMulSmall(FloatOne, 100)
Slack == BigOfSmall(2^20)
\* The exact sum of the densities of a result of extract_keywords.
RECURSIVE DensitySum(_)
DensitySum(items) ==
    IF items = <<>> THEN BigZero
    ELSE BigAdd(items[1].density, DensitySum(Tail(items)))

(* -------------------------------------------------------------------- C13 *)
\* C13 as stated: calculate_readability returns 0.0 whenever the text has no
\* whitespace-delimited word or holds no sentence terminator.
C13_AsStated ==
    (/\ Called("calculate_readability")
     /\ CountWords(Content) = 0 \/ Range(Content) \cap Terminators = {})
        => ret[1].value.num = 0

(* -------------------------------------------------------------------- C14 *)
\* C14: calculate_readability and calculate_seo_score each return a value in
\* the closed range [0, 100].
C14_ScoresInRange ==
    (Called("calculate_readability") \/ Called("calculate_seo_score")) =>
        /\ ret[1].value.den > 0
        /\ 0 <= ret[1].value.num
        /\ ret[1].value.num <= 100 * ret[1].value.den

\* A text whose Flesch score is above 100, returned as 100.
C14_Witness ==
    /\ Called("calculate_readability")
    /\ CountWords(Content) > 0
    /\ LET score == FleschScore(CountWords(Content),
                                Len(re_split(Content, Terminators)),
                                CountSyllables(Content))
       IN  score.num > 100 * score.den
    /\ ret[1].value.num = 100 * ret[1].value.den

(* -------------------------------------------------------------------- C15 *)
\* C15 as stated: extract_keywords returns at most 5 entries, every density
\* is > 0, the densities sum to at most 100, and no key has length 3 or less.
C15_AsStated ==
    Called("extract_keywords") =>
        /\ Len(ret[1].value) <= 5
        /\ \A i \in DOMAIN ret[1].value :
              /\ BigLess(BigZero, ret[1].value[i].density)
              /\ Len(ret[1].value[i].key) > 3
        /\ BigLeq(DensitySum(ret[1].value), Hundred)

\* C15, amended: extract_keywords returns at most 5 entries, every density
\* is > 0 and at most 100, no key has length 3 or less, and the densities,
\* being floats rounded one by one, sum to less than 100 + 2^-40.
C15_KeywordDensities ==
    Called("extract_keywords") =>
        /\ Len(ret[1].value) <= 5
        /\ \A i \in DOMAIN ret[1].value :
              /\ BigLess(BigZero, ret[1].value[i].density)
              /\ BigLeq(ret[1].value[i].density, Hundred)
              /\ Len(ret[1].value[i].key) > 3
        /\ BigLess(DensitySum(ret[1].value), BigAdd(Hundred, Slack))

\* Several entries returned for a text that also holds a word of three
\* letters, their densities summing to more than 100.
C15_Witness ==
    /\ Called("extract_keywords")
    /\ Len(ret[1].value) >= 2
    /\ \E w \in Range(findall(Content, WordChars)) : Len(w) <= 3
    /\ BigLess(Hundred, DensitySum(ret[1].value))

(* -------------------------------------------------------------------- C16 *)
\* The place in the text's qualifying tokens where key is first encountered.
FirstSeen(words, key) ==
    CHOOSE k \in DOMAIN words :
        words[k] = key /\ \A m \in 1..(k - 1) : words[m] # key

\* Token a goes before token b: it is the denser one or, of two equally
\* dense, the one first encountered.
GoesBefore(words, a, b) ==
    \/ Freq(words, a) > Freq(words, b)
    \/ Freq(words, a) = Freq(words, b)
       /\ FirstSeen(words, a) < FirstSeen(words, b)

\* C16: extract_keywords returns the 5 qualifying tokens of highest density
\* (all of them when there are fewer), in descending order of density, the
\* first encountered first among equally dense ones, also where the cut at 5
\* falls inside a tie; it returns the empty mapping when the text has no
\* token longer than 3.
C16_TopFiveInOrder ==
    Called("extract_keywords") =>
        LET words == KeywordTokens(Content)
            result == ret[1].value
            keys == {result[i].key : i \in DOMAIN result}
        IN  /\ Len(result) = Min(5, Cardinality(Range(words)))
            /\ \A i \in DOMAIN result :
                  /\ result[i].key \in Range(words)
                  /\ result[i].density =
                        FloatMulSmall(FloatDiv(Freq(words, result[i].key),
                                               Len(words)), 100)
            /\ \A i, j \in DOMAIN result :
                  i < j => /\ GoesBefore(words, result[i].key, result[j].key)
                           /\ BigLeq(result[j].density, result[i].density)
            /\ \A w \in Range(words) \ keys :
                  \A k \in keys : GoesBefore(words, k, w)

\* Six tokens qualify; the fifth entry is as dense as the token cut off, and
\* some entry was first encountered after the entry that follows it.
C16_Witness ==
    /\ Called("extract_keywords")
    /\ LET words == KeywordTokens(Content)
           result == ret[1].value
       IN  /\ Cardinality(Range(words)) = 6
           /\ Len(result) = 5
           /\ \E w \in Range(words) \ {result[i].key : i \in DOMAIN result} :
                 Freq(words, w) = Freq(words, result[5].key)
           /\ \E i \in 1..4 :
                 FirstSeen(words, result[i].key)
                     > FirstSeen(words, result[i + 1].key)

(* -------------------------------------------------------------------- C17 *)
\* The segments of a text that end with a sentence terminator: the non-empty
\* pieces of the text that a run of terminators follows.
TerminatedSegments(text) ==
    LET pieces == re_split(text, Terminators)
    IN  {k \in 1..(Len(pieces) - 1) : pieces[k] # <<>>}

\* C17 as stated: the sentence_count of the AnalysisResult is the number of
\* terminal-punctuated segments of the content; for the content
\* "Hello world. This is great!" word_count is 5 and sentence_count is 2.
C17_AsStated ==
    Called("analyze_content_with_ai") =>
        /\ ret[1].value.sentence_count = Cardinality(TerminatedSegments(Content))
        /\ Content = ExampleContent =>
              /\ ret[1].value.word_count = 5
              /\ ret[1].value.sentence_count = 2

(* -------------------------------------------------------------------- C19 *)
\* The numbered lines that the suggestions pattern finds in the response.
Found == arg[1].response.items

\* C19 as stated: when the send_message call of the analyze stage returns,
\* the suggestions are exactly three: the first three numbered lines when
\* three or more are found, the three fixed strings when fewer are found.
C19_AsStated ==
    (Called("analyze_content_with_ai") /\ ret[1].outcome = "returns") =>
        /\ Len(ret[1].value.suggestions) = 3
        /\ ret[1].value.suggestions =
              IF Len(Found) >= 3 THEN SubSeq(Found, 1, 3)
              ELSE <<"Improve clarity", "Enhance engagement",
                     "Optimize structure">>

\* C19, amended: when the send_message call of the analyze stage returns,
\* the suggestions are the first three numbered lines when three or more are
\* found, the one or two lines found when one or two are found, and the
\* three fixed strings only when none is found: one to three entries.
C19_SuggestionsParsed ==
    (Called("analyze_content_with_ai") /\ ret[1].outcome = "returns") =>
        /\ Len(ret[1].value.suggestions) \in 1..3
        /\ Len(Found) >= 3 => ret[1].value.suggestions = SubSeq(Found, 1, 3)
        /\ Len(Found) \in 1..2 => ret[1].value.suggestions = Found
        /\ Len(Found) = 0 =>
              ret[1].value.suggestions =
                  <<"Improve clarity", "Enhance engagement",
                    "Optimize structure">>

\* A response with two numbered lines, read into two suggestions.
C19_Witness ==
    /\ Called("analyze_content_with_ai") /\ ret[1].outcome = "returns"
    /\ Len(Found) = 2
    /\ Len(ret[1].value.suggestions) = 2

====
